---- MODULE Spec2Model ----
(***************************************************************************)
(* tickyourbudget: the IndexedDB stores (db.js), the home view (home.js),   *)
(* the budget-item view (items.js) and the transaction engine they call.    *)
(* Calendar dates are the integers yyyymmdd, whose order is the             *)
(* lexicographic order of the "YYYY-MM-DD" strings the program stores.      *)
(* Months are zero-indexed as in the JavaScript Date API.                   *)
(***************************************************************************)
EXTENDS Integers, Sequences, FiniteSets, TLC

(* ------------------------------ bounds ---------------------------------- *)
MaxTasks == 2
MaxEvents == 2
MaxIds == 4
MaxRecalcs == 1
EvalFirstYear == 2023
EvalAnchorYears == 2

(* --------------------------- program constants -------------------------- *)
PENDING == "Pending"
PAID == "Paid"
NoStatus == "undefined"

ONE_TIME == "One Time"
WEEKLY == "Weekly"
BI_WEEKLY == "Bi-Weekly"
MONTHLY == "Monthly"
QUARTERLY == "Quarterly"
YEARLY == "Yearly"

(* The clock of the run: new Date() in initHomeView and the Today button.   *)
TodayYear == 2024
TodayMonth == 1

(* Hours east of UTC of the runtime's local time zone.                      *)
TzOffsets == {0, 1}

(* ------------------------------ calendar -------------------------------- *)
MkDate(y, m, d) == y * 10000 + (m + 1) * 100 + d
(* A year part that is the current year whatever the date.                  *)
YearIgnored(date) == TodayYear

YearOf(date) == date \div 10000

(* A month part counted from 1.                                             *)
MonthOfOneIndexed(date) == (date \div 100) % 100

MonthOf(date) == ((date \div 100) % 100) - 1
DayOf(date) == date % 100

(* A calendar without leap years.                                           *)
NeverLeap(y) == FALSE

IsLeap(y) == (y % 4 = 0 /\ y % 100 # 0) \/ y % 400 = 0

(* A calendar whose months all have 30 days.                                *)
ThirtyDayMonths(y, m) == 30

DaysInMonth(y, m) ==
  IF m = 1 THEN (IF IsLeap(y) THEN 29 ELSE 28)
  ELSE IF m \in {3, 5, 8, 10} THEN 30 ELSE 31

Min(a, b) == IF a < b THEN a ELSE b

DaysBeforeMonth(y, m) ==
  LET cum == <<0, 31, 59, 90, 120, 151, 181, 212, 243, 273, 304, 334>>
  IN cum[m + 1] + (IF m > 1 /\ IsLeap(y) THEN 1 ELSE 0)

(* Days since a fixed epoch: the difference of two DayNumbers is the number *)
(* of days between the dates.                                               *)
DayNumber(date) ==
  LET y == YearOf(date)
      p == y - 1
  IN 365 * y + (p \div 4) - (p \div 100) + (p \div 400)
     + DaysBeforeMonth(y, MonthOf(date)) + DayOf(date)

PrevDay(date) ==
  LET y == YearOf(date)
      m == MonthOf(date)
      d == DayOf(date)
  IN IF d > 1 THEN MkDate(y, m, d - 1)
     ELSE IF m > 0 THEN MkDate(y, m - 1, DaysInMonth(y, m - 1))
     ELSE MkDate(y - 1, 11, 31)

(* new Date(year, month, day).toISOString().split('T')[0]: local midnight   *)
(* of the date, printed in UTC.  East of UTC the instant lies in the        *)
(* previous UTC day.                                                        *)
ToISODate(date, tz) == IF tz > 0 THEN PrevDay(date) ELSE date

(* -------------------------- sequences and sets --------------------------- *)
RECURSIVE SeqSum(_)
SeqSum(s) == IF s = <<>> THEN 0 ELSE Head(s) + SeqSum(Tail(s))

(* The records of S in ascending (date, id) order: the order in which an    *)
(* index getAll returns them (index key, then primary key).                 *)
RECURSIVE IndexOrder(_)
IndexOrder(S) ==
  IF S = {} THEN <<>>
  ELSE LET t == CHOOSE x \in S :
                  \A z \in S : x.date < z.date \/ (x.date = z.date /\ x.id <= z.id)
       IN <<t>> \o IndexOrder(S \ {t})

(* Array.prototype.sort((a, b) => a.date.localeCompare(b.date)): stable.    *)
RECURSIVE InsertByDate(_, _)
InsertByDate(s, t) ==
  IF s = <<>> THEN <<t>>
  ELSE IF t.date < Head(s).date THEN <<t>> \o s
  ELSE <<Head(s)>> \o InsertByDate(Tail(s), t)

RECURSIVE SortByDate(_)
SortByDate(s) ==
  IF s = <<>> THEN <<>>
  ELSE InsertByDate(SortByDate(SubSeq(s, 1, Len(s) - 1)), s[Len(s)])

(* ------------------------ db.js: the object stores ----------------------- *)
(* A store is the set of its records; the key path of every store is id.    *)
HasKey(store, id) == \E r \in store : r.id = id

(* An add that replaces the record stored for the same profile and date.    *)
dbAddReplacingSameDate(store, record) ==
  {r \in store : ~(r.profileId = record.profileId /\ r.date = record.date)} \cup {record}

(* store.add(record): a ConstraintError when the key exists, and the store  *)
(* is left as it was.                                                       *)
(* An add into a store with a unique index on budgetItemId and date.        *)
dbAddUniquePerRuleAndDate(store, record) ==
  IF \E t \in store : t.budgetItemId = record.budgetItemId /\ t.date = record.date
  THEN store
  ELSE store \cup {record}

dbAdd(store, record) ==
  IF HasKey(store, record.id) THEN store ELSE store \cup {record}

(* A put that writes nothing when the key is already stored.                *)
dbPutIfAbsent(store, record) ==
  IF \E r \in store : r.id = record.id THEN store ELSE store \cup {record}

(* store.put(record): upsert by key.                                        *)
dbPut(store, record) == {r \in store : r.id # record.id} \cup {record}

dbDelete(store, id) == {r \in store : r.id # id}

dbClear(store) == {}

(* A read of the whole budget-item store, whatever the profile.             *)
getAllBudgetItems(store, profileId) == store

(* index('profileId').getAll(profileId) on the budget items.                *)
getProfileBudgetItems(store, profileId) == {b \in store : b.profileId = profileId}

(* index('budgetItemId').getAll(budgetItemId) on the transactions.          *)
getTransactionsByBudgetItem(store, budgetItemId) ==
  IndexOrder({t \in store : t.budgetItemId = budgetItemId})

(* IDBKeyRange.bound([profileId, startDate], [profileId, endDate]) on the   *)
(* compound index profileId_date, both bounds inclusive.                    *)
dbGetByIndexRange(store, profileId, lower, upper) ==
  IndexOrder({t \in store : t.profileId = profileId /\ lower <= t.date /\ t.date <= upper})

getTransactionsForMonth(store, profileId, year, month, tz) ==
  LET startDate == ToISODate(MkDate(year, month, 1), tz)
      endDate == ToISODate(MkDate(year, month, DaysInMonth(year, month)), tz)
  IN dbGetByIndexRange(store, profileId, startDate, endDate)

(* ------------------- transaction-engine.js (from the docs) --------------- *)
(* A date built from the anchor's day without clamping.                     *)
UnclampedDate(year, month, day) == MkDate(year, month, day)

ClampedDate(year, month, day) == MkDate(year, month, Min(day, DaysInMonth(year, month)))

RECURSIVE CollectEvery(_, _, _, _, _)
CollectEvery(cursor, step, first, last, base) ==
  IF cursor > last THEN <<>>
  ELSE <<base + (cursor - first)>> \o CollectEvery(cursor + step, step, first, last, base)

(* A stepping that starts at the first day of the month when the anchor    *)
(* lies before it, instead of fast-forwarding the anchor by whole steps.    *)
EveryNDaysFromMonthStart(startDate, step, year, month) ==
  LET a == DayNumber(startDate)
      s == DayNumber(MkDate(year, month, 1))
      e == DayNumber(MkDate(year, month, DaysInMonth(year, month)))
      cursor == IF a >= s THEN a ELSE s
  IN CollectEvery(cursor, step, s, e, MkDate(year, month, 1))

EveryNDays(startDate, step, year, month) ==
  LET a == DayNumber(startDate)
      s == DayNumber(MkDate(year, month, 1))
      e == DayNumber(MkDate(year, month, DaysInMonth(year, month)))
      cursor == IF a >= s THEN a ELSE a + ((s - a + step - 1) \div step) * step
  IN CollectEvery(cursor, step, s, e, MkDate(year, month, 1))

getOccurrencesInMonth(item, year, month) ==
  LET start == item.startDate
      monthEnd == MkDate(year, month, DaysInMonth(year, month))
      clamped == ClampedDate(year, month, DayOf(start))
      diff == (year * 12 + month) - (YearOf(start) * 12 + MonthOf(start))
  IN IF start > monthEnd THEN <<>>
     ELSE IF item.frequency = ONE_TIME
       THEN (IF YearOf(start) = year /\ MonthOf(start) = month THEN <<start>> ELSE <<>>)
     ELSE IF item.frequency = MONTHLY
       THEN (IF clamped >= start THEN <<clamped>> ELSE <<>>)
     ELSE IF item.frequency = WEEKLY THEN EveryNDays(start, 7, year, month)
     ELSE IF item.frequency = BI_WEEKLY THEN EveryNDays(start, 14, year, month)
     ELSE IF item.frequency = QUARTERLY
       THEN (IF diff >= 0 /\ diff % 3 = 0 THEN <<clamped>> ELSE <<>>)
     ELSE IF item.frequency = YEARLY
       THEN (IF MonthOf(start) = month /\ year >= YearOf(start) THEN <<clamped>> ELSE <<>>)
     ELSE <<>>

(* createTransaction({ budgetItemId, profileId, date, amount, name }).      *)
createTransaction(id, item, profileId, date) ==
  [id |-> id, budgetItemId |-> item.id, profileId |-> profileId, date |-> date,
   status |-> PENDING, snapshotName |-> item.name, snapshotAmount |-> item.amount]

(* The "budgetItemId|date" keys of the transactions already stored.         *)
DedupKeys(existing) == {<<existing[i].budgetItemId, existing[i].date>> : i \in 1..Len(existing)}

(* The occurrences of the items (taken in key order) that have no stored    *)
(* transaction, without their ids.                                          *)
RECURSIVE MissingOf(_, _, _, _, _)
MissingOf(items, keys, profileId, year, month) ==
  IF items = {} THEN <<>>
  ELSE LET item == CHOOSE b \in items : \A c \in items : b.id <= c.id
           dates == getOccurrencesInMonth(item, year, month)
           fresh == SelectSeq(dates, LAMBDA d : <<item.id, d>> \notin keys)
       IN [i \in 1..Len(fresh) |-> createTransaction(0, item, profileId, fresh[i])]
          \o MissingOf(items \ {item}, keys, profileId, year, month)

(* Each new transaction gets a fresh id (crypto.randomUUID()).              *)
NewTransactions(items, existing, profileId, year, month, firstId) ==
  LET missing == MissingOf(items, DedupKeys(existing), profileId, year, month)
  IN [i \in 1..Len(missing) |-> [missing[i] EXCEPT !.id = firstId + i - 1]]

(* toggleTransactionStatus: the flip of the in-memory record.               *)
ToggledStatus(status) == IF status = PAID THEN PENDING ELSE PAID

(* ------------------------ home.js: the summary bar ----------------------- *)
(* What each record adds to one of the three sums of the loop: its amount   *)
(* to total; to paid if its status is Paid, to pending otherwise.           *)
Amounts(txns, sum) ==
  [i \in 1..Len(txns) |->
     IF sum = "total" THEN txns[i].snapshotAmount
     ELSE IF txns[i].status = PAID
          THEN (IF sum = "paid" THEN txns[i].snapshotAmount ELSE 0)
          ELSE (IF sum = "pending" THEN txns[i].snapshotAmount ELSE 0)]

(* A summary whose pending sum counts only the records marked Pending.      *)
SummaryPendingOnly(txns) ==
  [total |-> SeqSum([i \in 1..Len(txns) |-> txns[i].snapshotAmount]),
   paid |-> SeqSum([i \in 1..Len(txns) |->
              IF txns[i].status = PAID THEN txns[i].snapshotAmount ELSE 0]),
   pending |-> SeqSum([i \in 1..Len(txns) |->
                 IF txns[i].status = PENDING THEN txns[i].snapshotAmount ELSE 0])]

Summary(txns) ==
  [total |-> SeqSum(Amounts(txns, "total")),
   paid |-> SeqSum(Amounts(txns, "paid")),
   pending |-> SeqSum(Amounts(txns, "pending"))]

(* ------------------------ items.js: the item views ----------------------- *)
(* An edit that also rewrites the snapshots of the item's transactions.     *)
ItemFormUpdateRewriting(items, txns, existingItem, name, amount) ==
  <<{r \in items : r.id # existingItem.id}
      \cup {[existingItem EXCEPT !.name = name, !.amount = amount]},
    {IF t.budgetItemId = existingItem.id
     THEN [t EXCEPT !.snapshotName = name, !.snapshotAmount = amount]
     ELSE t : t \in txns}>>

(* The edit branch of the item form: { ...existingItem, name, amount } is   *)
(* put into the budget-item store; nothing else is written.  The result is  *)
(* the pair of stores <<budgetItems, transactions>> after the submit.       *)
ItemFormUpdate(items, txns, existingItem, name, amount) ==
  <<dbPut(items, [existingItem EXCEPT !.name = name, !.amount = amount]), txns>>

(* An item deletion that takes the item's transactions with it.             *)
DeleteItemAndTransactions(items, txns, id) ==
  <<{r \in items : r.id # id}, {t \in txns : t.budgetItemId # id}>>

(* await dbDelete(STORES.BUDGET_ITEMS, id): the pair of stores               *)
(* <<budgetItems, transactions>> after it.                                  *)
DeleteItemRecord(items, txns, id) == <<dbDelete(items, id), txns>>

(* A handler that cascades whatever the second answer.                      *)
AlwaysCascade(cascadeDelete) == "cascadeRead"

(* The delete handler after the second confirmation: if (cascadeDelete)     *)
(* deleteTransactionsByBudgetItem(id) runs before the item is deleted.      *)
AfterSecondConfirm(cascadeDelete) == IF cascadeDelete THEN "cascadeRead" ELSE "deleteItem"

(* ---------------------- db.js: importData validation --------------------- *)
(* !t.id || !t.budgetItemId || !t.profileId || !t.date throws; a missing    *)
(* number is 0 and a missing string is "".                                  *)
ValidTransaction(t) ==
  t.id # 0 /\ t.budgetItemId # 0 /\ t.profileId # "" /\ t.date # 0

ValidImportFirstOnly(data) == data = <<>> \/ ValidTransaction(data[1])

ValidImport(data) == \A i \in 1..Len(data) : ValidTransaction(data[i])

(* b.amount == null: a budget item record without an amount.                *)
NoAmount == -1

(* !b.id || !b.profileId || !b.categoryId || !b.name || b.amount == null    *)
(* throws.                                                                  *)
ValidBudgetItem(b) ==
  b.id # 0 /\ b.profileId # "" /\ b.categoryId # "" /\ b.name # "" /\ b.amount # NoAmount

(* Every budget item and every transaction of the file passes.              *)
ValidFile(data) ==
  /\ \A i \in 1..Len(data.budgetItems) : ValidBudgetItem(data.budgetItems[i])
  /\ ValidImport(data.transactions)

(* ------------------------------- the state ------------------------------- *)
ActiveProfile == "p1"

InitialBudgetItems ==
  { [id |-> 1, profileId |-> "p1", categoryId |-> "c1", name |-> "Rent", amount |-> 10,
     frequency |-> MONTHLY, startDate |-> 20240131],
    [id |-> 2, profileId |-> "p1", categoryId |-> "c1", name |-> "Gift", amount |-> 20,
     frequency |-> ONE_TIME, startDate |-> 20240210],
    [id |-> 3, profileId |-> "p2", categoryId |-> "c2", name |-> "Other", amount |-> 30,
     frequency |-> MONTHLY, startDate |-> 20240115] }

(* The occurrence a previous session left in the store: the one-time item  *)
(* was generated for February and ticked off before the monthly item was    *)
(* added.                                                                   *)
InitialTransactions ==
  { [id |-> 1, budgetItemId |-> 2, profileId |-> "p1", date |-> 20240210,
     status |-> PAID, snapshotName |-> "Gift", snapshotAmount |-> 20] }

(* What the item form may be submitted with.                                *)
EditNames == {"Rent2"}
EditAmounts == {15}

(* The id of a transaction record that comes from an import file only.      *)
ForeignId == MaxIds + 5

(* The JSON documents offered to importData: their transactions arrays.     *)
ImportDocuments ==
  { <<[id |-> ForeignId, budgetItemId |-> 1, profileId |-> "p1", date |-> 20240229,
       status |-> NoStatus, snapshotName |-> "Rent", snapshotAmount |-> 10]>>,
    <<[id |-> 1, budgetItemId |-> 2, profileId |-> "p1", date |-> 20240210,
       status |-> PENDING, snapshotName |-> "Gift", snapshotAmount |-> 99]>>,
    <<[id |-> ForeignId, budgetItemId |-> 1, profileId |-> "p1", date |-> 0,
       status |-> PENDING, snapshotName |-> "Rent", snapshotAmount |-> 10]>> }

(* ------------------------------ sw.js: the cache ------------------------- *)
(* How many fetch events the service worker is given.                       *)
MaxRequests == 2

(* No response (yet).                                                       *)
NoResponse == [status |-> 0, type |-> "", body |-> ""]

(* What the network may answer: ok or not, same-origin or not.  The body    *)
(* differs from the pre-cached one.                                         *)
NetResponses ==
  {[status |-> st, type |-> ty, body |-> "v2"] : st \in {200, 404}, ty \in {"basic", "cors"}}

RequestUrls == {"/index.html", "/api"}

RequestMethods == {"GET", "POST"}

(* The cache after the install event: the application assets.               *)
Precache == {[url |-> "/index.html", response |-> [status |-> 200, type |-> "basic", body |-> "v1"]]}

InstalledWorker == [cache |-> Precache, reqs |-> <<>>]

(* caches.match(event.request): the cached response, if any.                *)
CacheMatched(cache, url) ==
  IF \E e \in cache : e.url = url THEN (CHOOSE e \in cache : e.url = url).response
  ELSE NoResponse

(* !response || response.status !== 200 || response.type !== 'basic' is not *)
(* cached.                                                                  *)
CacheableWhatever(response) == TRUE

Cacheable(response) ==
  ~(response = NoResponse \/ response.status # 200 \/ response.type # "basic")

(* cache.put(request, response): one entry per request.                     *)
CachePutEntry(cache, url, response) ==
  {e \in cache : e.url # url} \cup {[url |-> url, response |-> response]}

(* A generateTransactionsForMonth call at its first await, with what it is  *)
(* called for.  repeat, prevIds and clean record whether the same period    *)
(* was generated before with no rule change since (settled); ofYear and     *)
(* ofMonth record the month of the renderHome call it belongs to.           *)
NewTaskAfter(settled, kind, year, month, total) ==
  [kind |-> kind, year |-> year, month |-> month, pc |-> "genItems", items |-> {},
   result |-> <<>>, todo |-> <<>>, added |-> 0, total |-> total,
   ofYear |-> year, ofMonth |-> month,
   repeat |-> \E r \in settled : r.year = year /\ r.month = month,
   prevIds |-> UNION {r.ids : r \in {q \in settled : q.year = year /\ q.month = month}},
   clean |-> TRUE]

VARIABLES
  tz,            \* the runtime's time zone, hours east of UTC
  budgetItems,   \* object store budgetItems
  transactions,  \* object store transactions
  currentYear,   \* home.js module state
  currentMonth,
  tasks,         \* the renderHome / renderMonthComparison calls in flight
  view,          \* the transactions array the checklist's click handlers close over
  summary,       \* the summary bar as last written
  recalcs,       \* toggle handlers waiting for their dbPut to resolve
  del,           \* the delete flow of the items view
  imp,           \* the records importData has still to put
  clr,           \* dbClearAll's position
  nextId,        \* the next fresh transaction id
  events,        \* how many user events have happened
  op,            \* the step last taken
  born,          \* id -> snapshot a created transaction was inserted with
  imported,      \* ids of the transaction records written by importData
  materialized,  \* periods generated with no rule change since, with the ids returned
  viewAux,       \* per checklist row: status when rendered, toggles since
  eval,          \* a getOccurrencesInMonth call: its arguments and what it returned
  failed,        \* the periods whose generate call was rejected after some of its inserts
  sw             \* the service worker: its cache and the fetch events it has been given

vars == <<tz, budgetItems, transactions, currentYear, currentMonth, tasks, view, summary,
          recalcs, del, imp, clr, nextId, events, op, born, imported, materialized, viewAux,
          eval, failed, sw>>

FirstRender == NewTaskAfter({}, "render", TodayYear, TodayMonth, 0)

IdleDelete == [pc |-> "idle", id |-> 0, cascadeDelete |-> FALSE, txns |-> <<>>]

(* The state once app.js has initialised the views and made its first       *)
(* renderHome() call (Home is the tab shown at start), up to its first      *)
(* await.                                                                   *)
Init ==
  /\ eval = <<>>
  /\ failed = {}
  /\ sw = InstalledWorker
  /\ tz \in TzOffsets
  /\ budgetItems = InitialBudgetItems
  /\ transactions = InitialTransactions
  /\ currentYear = TodayYear
  /\ currentMonth = TodayMonth
  /\ tasks = <<FirstRender>>
  /\ view = <<>>
  /\ summary = [total |-> 0, paid |-> 0, pending |-> 0]
  /\ recalcs = <<>>
  /\ del = IdleDelete
  /\ imp = <<>>
  /\ clr = "idle"
  /\ nextId = 1 + Cardinality(InitialTransactions)
  /\ events = 0
  /\ op = [name |-> "init", id |-> 0]
  /\ born = {[id |-> t.id, name |-> t.snapshotName, amount |-> t.snapshotAmount] :
               t \in InitialTransactions}
  /\ imported = {}
  /\ materialized = {}
  /\ viewAux = <<>>

Ids(txns) == {txns[i].id : i \in 1..Len(txns)}

RemoveAt(s, i) == SubSeq(s, 1, i - 1) \o SubSeq(s, i + 1, Len(s))

(* A rule or store change made outside generate: earlier generate calls no  *)
(* longer count as "the same call made before".                             *)
Unsettled(ts) == [i \in 1..Len(ts) |-> [ts[i] EXCEPT !.repeat = FALSE, !.clean = FALSE]]

(* ----------------------- home.js: month navigation ----------------------- *)
NewTask(kind, year, month, total) == NewTaskAfter(materialized, kind, year, month, total)

(* renderHome up to its first await: generateTransactionsForMonth is called *)
(* with the month shown.                                                    *)
StartRender(year, month, name) ==
  /\ events < MaxEvents
  /\ Len(tasks) < MaxTasks
  /\ currentYear' = year
  /\ currentMonth' = month
  /\ tasks' = Append(tasks, NewTask("render", year, month, 0))
  /\ events' = events + 1
  /\ op' = [name |-> name, id |-> 0]
  /\ UNCHANGED <<sw, failed, eval, tz, budgetItems, transactions, view, summary, recalcs, del, imp, clr,
                 nextId, born, imported, materialized, viewAux>>

(* btnPrevMonth: currentMonth--, wrapping to December of the year before.   *)
PrevMonthNoWrap(year, month) == <<year, month - 1>>

PrevMonth(year, month) == IF month - 1 < 0 THEN <<year - 1, 11>> ELSE <<year, month - 1>>

(* btnNextMonth: currentMonth++, wrapping to January of the year after.     *)
NextMonth(year, month) == IF month + 1 > 11 THEN <<year + 1, 0>> ELSE <<year, month + 1>>

ClickPrev ==
  StartRender(PrevMonth(currentYear, currentMonth)[1], PrevMonth(currentYear, currentMonth)[2],
              "prev")

ClickNext ==
  StartRender(NextMonth(currentYear, currentMonth)[1], NextMonth(currentYear, currentMonth)[2],
              "next")

ClickToday == StartRender(TodayYear, TodayMonth, "today")

(* ------------- transaction-engine.js: generateTransactionsForMonth ------- *)
(* generate returns: the list is sorted by date; renderHome goes on to its  *)
(* own reads, renderMonthComparison writes the comparison and ends.         *)
Returned(t) ==
  [t EXCEPT !.result = SortByDate(t.result),
            !.pc = IF t.kind = "render" THEN "items" ELSE "done"]

Settle(t) ==
  IF t.clean
  THEN {r \in materialized : ~(r.year = t.year /\ r.month = t.month)}
       \cup {[year |-> t.year, month |-> t.month, ids |-> Ids(t.result)]}
  ELSE materialized

(* The tasks after task i took a step to t: a finished task is dropped.     *)
Stepped(i, t) == IF t.pc = "done" THEN RemoveAt(tasks, i) ELSE [tasks EXCEPT ![i] = t]

(* Step 1: the budget items of the profile are read.                        *)
GenItems(i) ==
  /\ tasks[i].pc = "genItems"
  /\ tasks' = [tasks EXCEPT ![i].items = getProfileBudgetItems(budgetItems, ActiveProfile),
                            ![i].pc = "genExisting"]
  /\ op' = [name |-> "genItems", id |-> 0]
  /\ UNCHANGED <<sw, failed, eval, tz, budgetItems, transactions, currentYear, currentMonth, view, summary,
                 recalcs, del, imp, clr, nextId, events, born, imported, materialized, viewAux>>

(* Steps 2 to 5: the month's transactions are read and the missing ones are *)
(* constructed.                                                             *)
GenExisting(i) ==
  LET t == tasks[i]
      existing == getTransactionsForMonth(transactions, ActiveProfile, t.year, t.month, tz)
      todo == NewTransactions(t.items, existing, ActiveProfile, t.year, t.month, nextId)
      u == [t EXCEPT !.result = existing, !.todo = todo, !.pc = "genInsert"]
      v == IF todo = <<>> THEN Returned(u) ELSE u
  IN /\ t.pc = "genExisting"
     /\ nextId + Len(todo) - 1 <= MaxIds
     /\ nextId' = nextId + Len(todo)
     /\ tasks' = Stepped(i, v)
     /\ materialized' = IF todo = <<>> THEN Settle(v) ELSE materialized
     /\ op' = [name |-> "genExisting", id |-> 0]
     /\ UNCHANGED <<sw, failed, eval, tz, budgetItems, transactions, currentYear, currentMonth, view, summary,
                    recalcs, del, imp, clr, events, born, imported, viewAux>>

(* Step 6: one new transaction is persisted through dbAdd.                  *)
GenInsert(i) ==
  LET t == tasks[i]
      record == Head(t.todo)
      u == [t EXCEPT !.result = Append(t.result, record), !.todo = Tail(t.todo),
                     !.added = @ + 1]
      v == IF u.todo = <<>> THEN Returned(u) ELSE u
  IN /\ t.pc = "genInsert"
     /\ transactions' = dbAdd(transactions, record)
     /\ born' = born \cup {[id |-> record.id, name |-> record.snapshotName,
                            amount |-> record.snapshotAmount]}
     /\ tasks' = Stepped(i, v)
     /\ materialized' = IF u.todo = <<>> THEN Settle(v) ELSE materialized
     /\ op' = [name |-> "genInsert", id |-> record.id]
     /\ UNCHANGED <<sw, failed, eval, tz, budgetItems, currentYear, currentMonth, view, summary, recalcs, del,
                    imp, clr, nextId, events, imported, viewAux>>

(* ----------------------------- home.js: renderHome ----------------------- *)
(* await getProfileBudgetItems(profileId): the items used for grouping.     *)
RenderItems(i) ==
  /\ tasks[i].pc = "items"
  /\ tasks' = [tasks EXCEPT ![i].items = getProfileBudgetItems(budgetItems, ActiveProfile),
                            ![i].pc = "finish"]
  /\ op' = [name |-> "renderItems", id |-> 0]
  /\ UNCHANGED <<sw, failed, eval, tz, budgetItems, transactions, currentYear, currentMonth, view, summary,
                 recalcs, del, imp, clr, nextId, events, born, imported, materialized, viewAux>>

(* A toggle handler of a checklist that is replaced keeps the array it      *)
(* closed over.                                                             *)
Detached(rs) == [k \in 1..Len(rs) |-> IF rs[k].live THEN [live |-> FALSE, txns |-> view] ELSE rs[k]]

(* After the categories are read: the summary is written; an empty month    *)
(* clears the checklist; otherwise renderMonthComparison is started for the *)
(* month before currentMonth and the checklist is rebuilt.                  *)
RenderFinish(i) ==
  LET t == tasks[i]
      prevYear == IF currentMonth - 1 < 0 THEN currentYear - 1 ELSE currentYear
      prevMonth == IF currentMonth - 1 < 0 THEN 11 ELSE currentMonth - 1
      s == Summary(t.result)
  IN /\ t.pc = "finish"
     /\ summary' = s
     /\ view' = t.result
     /\ viewAux' = [k \in 1..Len(t.result) |-> [status0 |-> t.result[k].status, n |-> 0]]
     /\ recalcs' = Detached(recalcs)
     /\ tasks' = IF t.result = <<>> THEN RemoveAt(tasks, i)
                 ELSE Append(RemoveAt(tasks, i),
                             [NewTask("compare", prevYear, prevMonth, s.total)
                                EXCEPT !.ofYear = t.year, !.ofMonth = t.month])
     /\ op' = [name |-> "renderFinish", id |-> 0]
     /\ UNCHANGED <<sw, failed, eval, tz, budgetItems, transactions, currentYear, currentMonth, del, imp, clr,
                    nextId, events, born, imported, materialized>>

(* The checklist row's click handler up to its await: the in-memory record  *)
(* is flipped and put.                                                      *)
ToggleClick(k) ==
  LET txn == [view[k] EXCEPT !.status = ToggledStatus(view[k].status)]
  IN /\ events < MaxEvents
     /\ Len(recalcs) < MaxRecalcs
     /\ view' = [view EXCEPT ![k] = txn]
     /\ viewAux' = [viewAux EXCEPT ![k].n = @ + 1]
     /\ transactions' = dbPut(transactions, txn)
     /\ recalcs' = Append(recalcs, [live |-> TRUE, txns |-> <<>>])
     /\ events' = events + 1
     /\ tasks' = IF HasKey(transactions, txn.id) THEN tasks ELSE Unsettled(tasks)
     /\ materialized' = IF HasKey(transactions, txn.id) THEN materialized ELSE {}
     /\ op' = [name |-> "toggle", id |-> k]
     /\ UNCHANGED <<sw, failed, eval, tz, budgetItems, currentYear, currentMonth, summary, del, imp, clr,
                    nextId, born, imported>>

(* The handler after the await: the summary is recalculated from the array  *)
(* it closed over.                                                          *)
ToggleRecalc ==
  /\ recalcs # <<>>
  /\ summary' = Summary(IF Head(recalcs).live THEN view ELSE Head(recalcs).txns)
  /\ recalcs' = Tail(recalcs)
  /\ op' = [name |-> "recalc", id |-> 0]
  /\ UNCHANGED <<sw, failed, eval, tz, budgetItems, transactions, currentYear, currentMonth, tasks, view, del,
                 imp, clr, nextId, events, born, imported, materialized, viewAux>>

(* ------------------------ items.js: edit and delete ---------------------- *)
(* The item form submitted in its edit branch.                              *)
EditItem(item, name, amount) ==
  LET stores == ItemFormUpdate(budgetItems, transactions, item, name, amount)
  IN /\ events < MaxEvents
     /\ item \in getProfileBudgetItems(budgetItems, ActiveProfile)
     /\ budgetItems' = stores[1]
     /\ transactions' = stores[2]
     /\ events' = events + 1
     /\ tasks' = Unsettled(tasks)
     /\ materialized' = {}
     /\ op' = [name |-> "editItem", id |-> item.id]
     /\ UNCHANGED <<sw, failed, eval, tz, currentYear, currentMonth, view, summary, recalcs, del, imp, clr,
                    nextId, born, imported, viewAux>>

(* The Delete button of a card: the first confirmation opens.               *)
DeleteClick(item) ==
  /\ events < MaxEvents
  /\ del.pc = "idle"
  /\ item \in getProfileBudgetItems(budgetItems, ActiveProfile)
  /\ del' = [IdleDelete EXCEPT !.pc = "confirm1", !.id = item.id]
  /\ events' = events + 1
  /\ op' = [name |-> "deleteClick", id |-> item.id]
  /\ UNCHANGED <<sw, failed, eval, tz, budgetItems, transactions, currentYear, currentMonth, tasks, view,
                 summary, recalcs, imp, clr, nextId, born, imported, materialized, viewAux>>

(* First confirmation: Cancel ends the flow, "Delete Item Only" goes on.    *)
ConfirmFirst(confirmed) ==
  /\ del.pc = "confirm1"
  /\ del' = IF confirmed THEN [del EXCEPT !.pc = "confirm2"] ELSE IdleDelete
  /\ op' = [name |-> IF confirmed THEN "confirmDelete" ELSE "cancelDelete", id |-> del.id]
  /\ UNCHANGED <<sw, failed, eval, tz, budgetItems, transactions, currentYear, currentMonth, tasks, view,
                 summary, recalcs, imp, clr, nextId, events, born, imported, materialized,
                 viewAux>>

(* Second confirmation: "Yes, delete transactions" or "No, keep them".      *)
ConfirmSecond(cascadeDelete) ==
  /\ del.pc = "confirm2"
  /\ del' = [del EXCEPT !.pc = AfterSecondConfirm(cascadeDelete),
                        !.cascadeDelete = cascadeDelete]
  /\ op' = [name |-> "confirmCascade", id |-> del.id]
  /\ UNCHANGED <<sw, failed, eval, tz, budgetItems, transactions, currentYear, currentMonth, tasks, view,
                 summary, recalcs, imp, clr, nextId, events, born, imported, materialized,
                 viewAux>>

(* deleteTransactionsByBudgetItem: the item's transactions are read.        *)
CascadeRead ==
  LET txns == getTransactionsByBudgetItem(transactions, del.id)
  IN /\ del.pc = "cascadeRead"
     /\ del' = [del EXCEPT !.txns = txns,
                           !.pc = IF txns = <<>> THEN "deleteItem" ELSE "cascadeDelete"]
     /\ op' = [name |-> "cascadeRead", id |-> del.id]
     /\ UNCHANGED <<sw, failed, eval, tz, budgetItems, transactions, currentYear, currentMonth, tasks, view,
                    summary, recalcs, imp, clr, nextId, events, born, imported, materialized,
                    viewAux>>

(* deleteTransactionsByBudgetItem: one of them is deleted.                  *)
CascadeDelete ==
  /\ del.pc = "cascadeDelete"
  /\ transactions' = dbDelete(transactions, Head(del.txns).id)
  /\ del' = [del EXCEPT !.txns = Tail(del.txns),
                        !.pc = IF Tail(del.txns) = <<>> THEN "deleteItem" ELSE "cascadeDelete"]
  /\ tasks' = Unsettled(tasks)
  /\ materialized' = {}
  /\ op' = [name |-> "cascadeDelete", id |-> Head(del.txns).id]
  /\ UNCHANGED <<sw, failed, eval, tz, budgetItems, currentYear, currentMonth, view, summary, recalcs, imp,
                 clr, nextId, events, born, imported, viewAux>>

(* await dbDelete(STORES.BUDGET_ITEMS, id).                                 *)
DeleteItem ==
  /\ del.pc = "deleteItem"
  /\ budgetItems' = DeleteItemRecord(budgetItems, transactions, del.id)[1]
  /\ transactions' = DeleteItemRecord(budgetItems, transactions, del.id)[2]
  /\ del' = [IdleDelete EXCEPT !.cascadeDelete = del.cascadeDelete]
  /\ tasks' = Unsettled(tasks)
  /\ materialized' = {}
  /\ op' = [name |-> "deleteItem", id |-> del.id]
  /\ UNCHANGED <<sw, failed, eval, tz, currentYear, currentMonth, view, summary, recalcs, imp,
                 clr, nextId, events, born, imported, viewAux>>

(* ---------------------- db.js: importData, dbClearAll -------------------- *)
(* importData(data): every record is validated, then each is put.  A        *)
(* document that fails validation throws before anything is written.        *)
Import(data) ==
  /\ events < MaxEvents
  /\ imp = <<>>
  /\ events' = events + 1
  /\ imp' = IF ValidImport(data) THEN data ELSE <<>>
  /\ op' = [name |-> IF ValidImport(data) THEN "import" ELSE "importRejected", id |-> 0]
  /\ UNCHANGED <<sw, failed, eval, tz, budgetItems, transactions, currentYear, currentMonth, tasks, view,
                 summary, recalcs, del, clr, nextId, born, imported, materialized, viewAux>>

(* for (const t of transactions) await dbPut(STORES.TRANSACTIONS, t).       *)
ImportPut ==
  /\ imp # <<>>
  /\ transactions' = dbPut(transactions, Head(imp))
  /\ imp' = Tail(imp)
  /\ imported' = imported \cup {Head(imp).id}
  /\ tasks' = Unsettled(tasks)
  /\ materialized' = {}
  /\ op' = [name |-> "importPut", id |-> Head(imp).id]
  /\ UNCHANGED <<sw, failed, eval, tz, budgetItems, currentYear, currentMonth, view, summary, recalcs, del,
                 clr, nextId, events, born, viewAux>>

(* dbClearAll: the stores are cleared one after the other, the budget items *)
(* before the transactions.                                                 *)
ClearAllItems ==
  /\ events < MaxEvents
  /\ clr = "idle"
  /\ budgetItems' = dbClear(budgetItems)
  /\ clr' = "transactions"
  /\ events' = events + 1
  /\ tasks' = Unsettled(tasks)
  /\ materialized' = {}
  /\ op' = [name |-> "clearItems", id |-> 0]
  /\ UNCHANGED <<sw, failed, eval, tz, transactions, currentYear, currentMonth, view, summary, recalcs, del,
                 imp, nextId, born, imported, viewAux>>

ClearAllTransactions ==
  /\ clr = "transactions"
  /\ transactions' = dbClear(transactions)
  /\ clr' = "idle"
  /\ tasks' = Unsettled(tasks)
  /\ materialized' = {}
  /\ op' = [name |-> "clearTransactions", id |-> 0]
  /\ UNCHANGED <<sw, failed, eval, tz, budgetItems, currentYear, currentMonth, view, summary, recalcs, del,
                 imp, nextId, events, born, imported, viewAux>>

(* ------------------------------ specification ---------------------------- *)
(* Every step but the month navigation.                                     *)
Steps ==
  \/ \E i \in 1..Len(tasks) : GenItems(i)
  \/ \E i \in 1..Len(tasks) : GenExisting(i)
  \/ \E i \in 1..Len(tasks) : GenInsert(i)
  \/ \E i \in 1..Len(tasks) : RenderItems(i)
  \/ \E i \in 1..Len(tasks) : RenderFinish(i)
  \/ \E k \in 1..Len(view) : ToggleClick(k)
  \/ ToggleRecalc
  \/ \E item \in budgetItems, name \in EditNames, amount \in EditAmounts :
       EditItem(item, name, amount)
  \/ \E item \in budgetItems : DeleteClick(item)
  \/ \E confirmed \in BOOLEAN : ConfirmFirst(confirmed)
  \/ \E cascadeDelete \in BOOLEAN : ConfirmSecond(cascadeDelete)
  \/ CascadeRead
  \/ CascadeDelete
  \/ DeleteItem
  \/ \E data \in ImportDocuments : Import(data)
  \/ ImportPut
  \/ ClearAllItems
  \/ ClearAllTransactions

Next ==
  \/ ClickPrev
  \/ ClickNext
  \/ ClickToday
  \/ Steps

Spec == Init /\ [][Next]_vars

(* The home view used sequentially: the month is changed only when no       *)
(* generate call is in flight.                                              *)
NextSeq ==
  \/ tasks = <<>> /\ ClickPrev
  \/ tasks = <<>> /\ ClickNext
  \/ tasks = <<>> /\ ClickToday
  \/ Steps

SpecSeq == Init /\ [][NextSeq]_vars

(* ---------------------- getOccurrencesInMonth on its own ----------------- *)
(* The days of the month an anchor may fall on.                             *)
AnchorDays == {1, 15, 28, 29, 30, 31}

(* The start dates of the budget items evaluated.                           *)
AnchorDates ==
  {x \in {MkDate(y, m, d) : y \in EvalFirstYear..(EvalFirstYear + EvalAnchorYears - 1),
                            m \in 0..11, d \in AnchorDays} :
     DayOf(x) <= DaysInMonth(YearOf(x), MonthOf(x))}

Frequencies == {ONE_TIME, WEEKLY, BI_WEEKLY, MONTHLY, QUARTERLY, YEARLY}

(* The calls getOccurrencesInMonth(item, year, month) made: any frequency,  *)
(* any anchor, any month of the anchors' years and of the year after.       *)
EvalInputs ==
  {[item |-> [id |-> 1, profileId |-> ActiveProfile, categoryId |-> "c1", name |-> "Rent",
              amount |-> 10, frequency |-> f, startDate |-> a],
    year |-> y, month |-> m, dates |-> <<>>, done |-> FALSE] :
     f \in Frequencies, a \in AnchorDates,
     y \in EvalFirstYear..(EvalFirstYear + EvalAnchorYears), m \in 0..11}

InitEval ==
  /\ eval \in EvalInputs
  /\ failed = {}
  /\ sw = InstalledWorker
  /\ tz = 0
  /\ budgetItems = {}
  /\ transactions = {}
  /\ currentYear = TodayYear
  /\ currentMonth = TodayMonth
  /\ tasks = <<>>
  /\ view = <<>>
  /\ summary = [total |-> 0, paid |-> 0, pending |-> 0]
  /\ recalcs = <<>>
  /\ del = IdleDelete
  /\ imp = <<>>
  /\ clr = "idle"
  /\ nextId = 1
  /\ events = 0
  /\ op = [name |-> "init", id |-> 0]
  /\ born = {}
  /\ imported = {}
  /\ materialized = {}
  /\ viewAux = <<>>

(* The call returns.                                                        *)
Evaluate ==
  /\ ~eval.done
  /\ eval' = [eval EXCEPT !.dates = getOccurrencesInMonth(eval.item, eval.year, eval.month),
                          !.done = TRUE]
  /\ op' = [name |-> "evaluate", id |-> 0]
  /\ UNCHANGED <<sw, failed, tz, budgetItems, transactions, currentYear, currentMonth, tasks,
                 view, summary, recalcs, del, imp, clr, nextId, events, born, imported,
                 materialized, viewAux>>

NextEval == Evaluate

SpecEval == InitEval /\ [][NextEval]_vars

(* ------------------- generate with a store that can fail ---------------- *)
(* A first run on an empty transactions store, the budget items in place.   *)
InitRetry ==
  /\ eval = <<>>
  /\ failed = {}
  /\ sw = InstalledWorker
  /\ tz \in TzOffsets
  /\ budgetItems = InitialBudgetItems
  /\ transactions = {}
  /\ currentYear = TodayYear
  /\ currentMonth = TodayMonth
  /\ tasks = <<FirstRender>>
  /\ view = <<>>
  /\ summary = [total |-> 0, paid |-> 0, pending |-> 0]
  /\ recalcs = <<>>
  /\ del = IdleDelete
  /\ imp = <<>>
  /\ clr = "idle"
  /\ nextId = 1
  /\ events = 0
  /\ op = [name |-> "init", id |-> 0]
  /\ born = {}
  /\ imported = {}
  /\ materialized = {}
  /\ viewAux = <<>>

(* The dbAdd request of step 6 is rejected (request.onerror): generate      *)
(* rejects, nothing is written, and the caller ends: renderHome without     *)
(* touching the page, renderMonthComparison in its catch.                   *)
GenFail(i) ==
  LET t == tasks[i]
  IN /\ t.pc = "genInsert"
     /\ tasks' = RemoveAt(tasks, i)
     /\ failed' = IF t.added > 0 THEN failed \cup {<<t.year, t.month>>} ELSE failed
     /\ op' = [name |-> "genFail", id |-> Head(t.todo).id]
     /\ UNCHANGED <<sw, eval, tz, budgetItems, transactions, currentYear, currentMonth, view,
                    summary, recalcs, del, imp, clr, nextId, events, born, imported,
                    materialized, viewAux>>

(* The home view used sequentially on a store whose adds may fail.          *)
NextRetry ==
  \/ tasks = <<>> /\ ClickPrev
  \/ tasks = <<>> /\ ClickNext
  \/ tasks = <<>> /\ ClickToday
  \/ \E i \in 1..Len(tasks) : GenItems(i)
  \/ \E i \in 1..Len(tasks) : GenExisting(i)
  \/ \E i \in 1..Len(tasks) : GenInsert(i)
  \/ \E i \in 1..Len(tasks) : GenFail(i)
  \/ \E i \in 1..Len(tasks) : RenderItems(i)
  \/ \E i \in 1..Len(tasks) : RenderFinish(i)

SpecRetry == InitRetry /\ [][NextRetry]_vars

(* ------------------------- the month navigation bar --------------------- *)
(* The month initHomeView read from the clock when the app was opened: the  *)
(* page may have been open since December or January.                       *)
NavStarts == {<<TodayYear - 1, 11>>, <<TodayYear, 0>>, <<TodayYear, TodayMonth>>}

InitNav ==
  /\ eval = <<>>
  /\ failed = {}
  /\ sw = InstalledWorker
  /\ tz \in TzOffsets
  /\ budgetItems = InitialBudgetItems
  /\ transactions = InitialTransactions
  /\ \E start \in NavStarts :
       /\ currentYear = start[1]
       /\ currentMonth = start[2]
       /\ tasks = <<NewTaskAfter({}, "render", start[1], start[2], 0)>>
  /\ view = <<>>
  /\ summary = [total |-> 0, paid |-> 0, pending |-> 0]
  /\ recalcs = <<>>
  /\ del = IdleDelete
  /\ imp = <<>>
  /\ clr = "idle"
  /\ nextId = 1 + Cardinality(InitialTransactions)
  /\ events = 0
  /\ op = [name |-> "init", id |-> 0]
  /\ born = {[id |-> t.id, name |-> t.snapshotName, amount |-> t.snapshotAmount] :
               t \in InitialTransactions}
  /\ imported = {}
  /\ materialized = {}
  /\ viewAux = <<>>

(* The month buttons, clicked at any time, and the renders they start.      *)
NextNav ==
  \/ ClickPrev
  \/ ClickNext
  \/ ClickToday
  \/ \E i \in 1..Len(tasks) : GenItems(i)
  \/ \E i \in 1..Len(tasks) : GenExisting(i)
  \/ \E i \in 1..Len(tasks) : GenInsert(i)
  \/ \E i \in 1..Len(tasks) : RenderItems(i)
  \/ \E i \in 1..Len(tasks) : RenderFinish(i)

SpecNav == InitNav /\ [][NextNav]_vars

(* ------------------- importData with whole export files ----------------- *)
(* The files offered: budgetItems and transactions arrays.  The first       *)
(* overwrites a record of each store, the second has an invalid transaction *)
(* after valid records, the third a budget item without an amount, the      *)
(* fourth brings a new transaction only.                                    *)
ImportFiles ==
  << [budgetItems |-> <<[id |-> 1, profileId |-> "p1", categoryId |-> "c1", name |-> "Rent",
                         amount |-> 12, frequency |-> MONTHLY, startDate |-> 20240131]>>,
      transactions |-> <<[id |-> 1, budgetItemId |-> 2, profileId |-> "p1",
                          date |-> 20240210, status |-> PENDING, snapshotName |-> "Gift",
                          snapshotAmount |-> 99]>>],
     [budgetItems |-> <<[id |-> 4, profileId |-> "p1", categoryId |-> "c1", name |-> "Gym",
                         amount |-> 5, frequency |-> MONTHLY, startDate |-> 20240301]>>,
      transactions |-> <<[id |-> ForeignId, budgetItemId |-> 1, profileId |-> "p1",
                          date |-> 20240229, status |-> PENDING, snapshotName |-> "Rent",
                          snapshotAmount |-> 10],
                         [id |-> ForeignId + 1, budgetItemId |-> 1, profileId |-> "p1",
                          date |-> 0, status |-> PENDING, snapshotName |-> "Rent",
                          snapshotAmount |-> 10]>>],
     [budgetItems |-> <<[id |-> 4, profileId |-> "p1", categoryId |-> "c1", name |-> "Gym",
                         amount |-> NoAmount, frequency |-> MONTHLY, startDate |-> 20240301]>>,
      transactions |-> <<[id |-> ForeignId, budgetItemId |-> 1, profileId |-> "p1",
                          date |-> 20240229, status |-> PENDING, snapshotName |-> "Rent",
                          snapshotAmount |-> 10]>>],
     [budgetItems |-> <<>>,
      transactions |-> <<[id |-> ForeignId, budgetItemId |-> 1, profileId |-> "p1",
                          date |-> 20240229, status |-> PENDING, snapshotName |-> "Rent",
                          snapshotAmount |-> 10]>>] >>

(* importData(data) up to its first dbPut: all the validation loops run; a  *)
(* valid file leaves its budget items, then its transactions, to be put.    *)
ImportFile(k) ==
  LET data == ImportFiles[k]
  IN /\ events < MaxEvents
     /\ imp = <<>>
     /\ events' = events + 1
     /\ imp' = IF ValidFile(data) THEN data.budgetItems \o data.transactions ELSE <<>>
     /\ op' = [name |-> IF ValidFile(data) THEN "import" ELSE "importRejected", id |-> k]
     /\ UNCHANGED <<sw, failed, eval, tz, budgetItems, transactions, currentYear, currentMonth,
                    tasks, view, summary, recalcs, del, clr, nextId, born, imported,
                    materialized, viewAux>>

(* for (const b of budgetItems) await dbPut(STORES.BUDGET_ITEMS, b).        *)
ImportPutItem ==
  /\ imp # <<>>
  /\ "frequency" \in DOMAIN Head(imp)
  /\ budgetItems' = dbPut(budgetItems, Head(imp))
  /\ imp' = Tail(imp)
  /\ tasks' = Unsettled(tasks)
  /\ materialized' = {}
  /\ op' = [name |-> "importPutItem", id |-> Head(imp).id]
  /\ UNCHANGED <<sw, failed, eval, tz, transactions, currentYear, currentMonth, view, summary,
                 recalcs, del, clr, nextId, events, born, imported, viewAux>>

(* Imports of whole files while the home view renders.                      *)
NextImport ==
  \/ \E k \in 1..Len(ImportFiles) : ImportFile(k)
  \/ ImportPutItem
  \/ (imp # <<>> /\ "date" \in DOMAIN Head(imp)) /\ ImportPut
  \/ \E i \in 1..Len(tasks) : GenItems(i)
  \/ \E i \in 1..Len(tasks) : GenExisting(i)
  \/ \E i \in 1..Len(tasks) : GenInsert(i)
  \/ \E i \in 1..Len(tasks) : RenderItems(i)
  \/ \E i \in 1..Len(tasks) : RenderFinish(i)

SpecImport == Init /\ [][NextImport]_vars

(* ------------------------- sw.js: the fetch listener -------------------- *)
InitWorker ==
  /\ eval = <<>>
  /\ failed = {}
  /\ sw = InstalledWorker
  /\ tz = 0
  /\ budgetItems = {}
  /\ transactions = {}
  /\ currentYear = TodayYear
  /\ currentMonth = TodayMonth
  /\ tasks = <<>>
  /\ view = <<>>
  /\ summary = [total |-> 0, paid |-> 0, pending |-> 0]
  /\ recalcs = <<>>
  /\ del = IdleDelete
  /\ imp = <<>>
  /\ clr = "idle"
  /\ nextId = 1
  /\ events = 0
  /\ op = [name |-> "init", id |-> 0]
  /\ born = {}
  /\ imported = {}
  /\ materialized = {}
  /\ viewAux = <<>>

WorkerStep(name, i) ==
  /\ op' = [name |-> name, id |-> i]
  /\ UNCHANGED <<failed, eval, tz, budgetItems, transactions, currentYear, currentMonth,
                 tasks, view, summary, recalcs, del, imp, clr, nextId, events, born,
                 imported, materialized, viewAux>>

(* The listener is called: a request that is not a GET is left to the       *)
(* browser; for a GET, respondWith is given caches.match(...).then(...).    *)
FetchEvent(method, url) ==
  /\ Len(sw.reqs) < MaxRequests
  /\ sw' = [sw EXCEPT !.reqs = Append(@,
              [method |-> method, url |-> url,
               pc |-> IF method # "GET" THEN "passedThrough" ELSE "match",
               matched |-> NoResponse, response |-> NoResponse, served |-> "none",
               fetched |-> FALSE, written |-> FALSE])]
  /\ WorkerStep("fetchEvent", Len(sw.reqs) + 1)

(* caches.match resolves: a cached response is returned as it is, otherwise *)
(* fetch(event.request) is called.                                          *)
CacheLookup(i) ==
  LET r == sw.reqs[i]
      cached == CacheMatched(sw.cache, r.url)
  IN /\ r.pc = "match"
     /\ sw' = [sw EXCEPT !.reqs[i] =
                 IF cached # NoResponse
                 THEN [r EXCEPT !.matched = cached, !.response = cached, !.served = "cache",
                                !.pc = "done"]
                 ELSE [r EXCEPT !.fetched = TRUE, !.pc = "fetch"]]
     /\ WorkerStep("cacheLookup", i)

(* fetch resolves: the response is returned to the page; a cacheable one is *)
(* cloned and caches.open(...).then(put) is left running.                   *)
NetworkResponse(i, response) ==
  LET r == sw.reqs[i]
  IN /\ r.pc = "fetch"
     /\ sw' = [sw EXCEPT !.reqs[i] =
                 [r EXCEPT !.response = response, !.served = "network",
                           !.pc = IF Cacheable(response) THEN "put" ELSE "done"]]
     /\ WorkerStep("networkResponse", i)

(* fetch rejects (offline): respondWith is given a rejected promise.        *)
NetworkError(i) ==
  /\ sw.reqs[i].pc = "fetch"
  /\ sw' = [sw EXCEPT !.reqs[i].served = "error", !.reqs[i].pc = "done"]
  /\ WorkerStep("networkError", i)

(* cache.put(event.request, responseClone).                                 *)
CacheWrite(i) ==
  LET r == sw.reqs[i]
  IN /\ r.pc = "put"
     /\ sw' = [sw EXCEPT !.cache = CachePutEntry(@, r.url, r.response),
                         !.reqs[i].written = TRUE, !.reqs[i].pc = "done"]
     /\ WorkerStep("cacheWrite", i)

NextWorker ==
  \/ \E method \in RequestMethods, url \in RequestUrls : FetchEvent(method, url)
  \/ \E i \in 1..Len(sw.reqs) : CacheLookup(i)
  \/ \E i \in 1..Len(sw.reqs), response \in NetResponses : NetworkResponse(i, response)
  \/ \E i \in 1..Len(sw.reqs) : NetworkError(i)
  \/ \E i \in 1..Len(sw.reqs) : CacheWrite(i)

SpecWorker == InitWorker /\ [][NextWorker]_vars

(* ================================ claims ================================= *)

(* C1: after any interleaving of the home view's generate calls, status     *)
(* toggles, rule edits and rule deletions (no import has written to the     *)
(* store), at most one occurrence record exists for any (budgetItemId,      *)
(* date) pair.                                                              *)
UniquePerRuleAndDate ==
  imported = {} =>
    \A t \in transactions : \A u \in transactions :
      (t.budgetItemId = u.budgetItemId /\ t.date = u.date) => t.id = u.id

(* C2: under sequential use, a generate call for a period that was          *)
(* generated before, with no rule or store change since, constructs no new  *)
(* record and returns the occurrences the earlier call returned.            *)
SecondGenerateInsertsNothing ==
  \A i \in 1..Len(tasks) :
    tasks[i].repeat =>
      /\ tasks[i].todo = <<>>
      /\ tasks[i].pc \in {"items", "finish"} => Ids(tasks[i].result) = tasks[i].prevIds

(* C3: a step of generate never alters or removes a stored occurrence:      *)
(* every record in the store before the step is in the store, field for     *)
(* field, after it; generate only adds records.                             *)
GenerateOnlyAdds ==
  [][op'.name \in {"genItems", "genExisting", "genInsert"} =>
       /\ transactions \subseteq transactions'
       /\ \A t \in transactions' \ transactions : ~HasKey(transactions, t.id)]_vars

(* C3 witness: generate has just inserted a record while the store holds an *)
(* older occurrence whose rule has been edited since its creation.          *)
GenerateInsertedBesideEdited ==
  /\ op.name = "genInsert"
  /\ \E t \in transactions : \E b \in budgetItems :
       /\ t.id # op.id
       /\ b.id = t.budgetItemId
       /\ b.amount # t.snapshotAmount
       /\ \E r \in born : r.id = t.id /\ r.amount = t.snapshotAmount

(* C4: an occurrence created by generate keeps the snapshotName and         *)
(* snapshotAmount it was created with in every later state, whatever edits  *)
(* its rule has gone through (records overwritten by an import aside).      *)
SnapshotsFrozen ==
  \A t \in transactions : \A r \in born :
    (r.id = t.id /\ t.id \notin imported) =>
      (t.snapshotName = r.name /\ t.snapshotAmount = r.amount)

(* C4 witness: a rule was edited in name and amount after one of its        *)
(* occurrences was generated, and the occurrence is still stored.           *)
EditedAfterOccurrence ==
  /\ op.name = "editItem"
  /\ \E t \in transactions : \E b \in budgetItems :
       /\ b.id = op.id
       /\ t.budgetItemId = b.id
       /\ t.id \notin imported
       /\ b.name \in EditNames
       /\ b.amount \in EditAmounts
       /\ t.snapshotName # b.name
       /\ t.snapshotAmount # b.amount

(* C5: every occurrence generate constructs has status Pending, a date of   *)
(* the evaluator for the period, the id and profile of a rule read at the   *)
(* start of that call, and that rule's name and amount as its snapshot; the *)
(* record just inserted is stored that way.                                 *)
CreatedFromRuleAsRead ==
  /\ \A i \in 1..Len(tasks) : \A k \in 1..Len(tasks[i].todo) :
       LET t == tasks[i].todo[k]
       IN /\ t.status = PENDING
          /\ \E b \in tasks[i].items :
               /\ b.id = t.budgetItemId
               /\ b.profileId = t.profileId
               /\ b.name = t.snapshotName
               /\ b.amount = t.snapshotAmount
               /\ \E n \in 1..Len(getOccurrencesInMonth(b, tasks[i].year, tasks[i].month)) :
                    getOccurrencesInMonth(b, tasks[i].year, tasks[i].month)[n] = t.date
  /\ op.name = "genInsert" =>
       \E t \in transactions : \E r \in born :
         /\ t.id = op.id
         /\ r.id = t.id
         /\ t.status = PENDING
         /\ t.snapshotName = r.name
         /\ t.snapshotAmount = r.amount

(* C5 witness: after a rule edit, generate has inserted an occurrence with  *)
(* the edited name and amount while an older occurrence of the same rule    *)
(* keeps the values it was created with.                                    *)
CreatedWithEditedValues ==
  /\ op.name = "genInsert"
  /\ \E t \in transactions : \E u \in transactions :
       /\ t.id = op.id
       /\ t.snapshotName \in EditNames
       /\ t.snapshotAmount \in EditAmounts
       /\ u.budgetItemId = t.budgetItemId
       /\ u.snapshotName \notin EditNames

(* C6: in a delete flow without cascade (first confirmation cancelled, or   *)
(* second confirmation answered "No, keep them") no step changes the        *)
(* transactions store; cancelling changes no store; the final step removes  *)
(* the budget-item record of the rule and nothing else.                     *)
KeepDeleteLeavesOccurrences ==
  [][(op'.name \in {"deleteClick", "confirmDelete", "cancelDelete", "confirmCascade",
                    "cascadeRead", "cascadeDelete", "deleteItem"}
      /\ ~del'.cascadeDelete) =>
       /\ transactions' = transactions
       /\ op'.name # "deleteItem" => budgetItems' = budgetItems
       /\ op'.name = "deleteItem" =>
            budgetItems' = {b \in budgetItems : b.id # op'.id}]_vars

(* C6 witness: a rule has just been deleted without cascade and one of its  *)
(* occurrences is still stored with the snapshot it was created with.       *)
RuleDeletedOccurrenceKept ==
  /\ op.name = "deleteItem"
  /\ ~del.cascadeDelete
  /\ \A b \in budgetItems : b.id # op.id
  /\ \E t \in transactions : \E r \in born :
       /\ t.budgetItemId = op.id
       /\ r.id = t.id
       /\ r.name = t.snapshotName
       /\ r.amount = t.snapshotAmount

(* C7: right after a toggle the stored record has the status of the         *)
(* in-memory record, and after the second toggle of an occurrence rendered  *)
(* Pending or Paid that status is the one it was rendered with.             *)
ToggleTwiceRestores ==
  op.name = "toggle" =>
    /\ \E r \in transactions : r.id = view[op.id].id /\ r.status = view[op.id].status
    /\ (viewAux[op.id].n = 2 /\ viewAux[op.id].status0 \in {PENDING, PAID}) =>
         view[op.id].status = viewAux[op.id].status0
    /\ (viewAux[op.id].n = 1 /\ viewAux[op.id].status0 \in {PENDING, PAID}) =>
         view[op.id].status # viewAux[op.id].status0

(* C7 witness: an occurrence rendered Paid has been toggled twice and is    *)
(* Paid again in memory and in the store.                                   *)
PaidToggledTwice ==
  /\ op.name = "toggle"
  /\ viewAux[op.id].n = 2
  /\ viewAux[op.id].status0 = PAID
  /\ view[op.id].status = PAID

StatusPendingOrPaid == \A t \in transactions : t.status \in {PENDING, PAID}

WeeklyIntervalAnchored ==
  (eval.done /\ eval.item.frequency \in {WEEKLY, BI_WEEKLY}) =>
    LET step == IF eval.item.frequency = WEEKLY THEN 7 ELSE 14
        anchor == eval.item.startDate
        monthDates == {MkDate(eval.year, eval.month, d) :
                         d \in 1..DaysInMonth(eval.year, eval.month)}
    IN /\ {eval.dates[i] : i \in 1..Len(eval.dates)} =
            {d \in monthDates :
               d >= anchor /\ (DayNumber(d) - DayNumber(anchor)) % step = 0}
       /\ \A i \in 1..Len(eval.dates) : \A j \in 1..Len(eval.dates) :
            i # j => eval.dates[i] # eval.dates[j]
       /\ \A d \in monthDates \cup {anchor} : DayNumber(d) = DayNumber(PrevDay(d)) + 1

(* C11 witness: the Weekly item anchored 2024-01-01, evaluated for March    *)
(* 2024, gave the four Mondays 4, 11, 18 and 25 March.                      *)
WeeklyMarchExample ==
  /\ eval.done
  /\ eval.item.frequency = WEEKLY
  /\ eval.item.startDate = 20240101
  /\ eval.year = 2024
  /\ eval.month = 2
  /\ eval.dates = <<20240304, 20240311, 20240318, 20240325>>

(* C12 as stated: a Monthly item gives the date with day min(anchor day,    *)
(* days of the target month) iff that date is on or after the anchor; the   *)
(* anchor 2024-01-31 gives 2024-02-29 for February 2024 and 2023-02-28 for  *)
(* February 2023.                                                           *)
MonthlyClampedAsStated ==
  (eval.done /\ eval.item.frequency = MONTHLY) =>
    LET anchor == eval.item.startDate
        last == DaysInMonth(eval.year, eval.month)
        candidate == MkDate(eval.year, eval.month,
                            IF DayOf(anchor) < last THEN DayOf(anchor) ELSE last)
    IN /\ eval.dates = IF candidate >= anchor THEN <<candidate>> ELSE <<>>
       /\ (anchor = 20240131 /\ eval.year = 2024 /\ eval.month = 1) =>
            eval.dates = <<20240229>>
       /\ (anchor = 20240131 /\ eval.year = 2023 /\ eval.month = 1) =>
            eval.dates = <<20230228>>

(* C12 amended: a Monthly item gives the date with day min(anchor day, days *)
(* of the target month) iff that date is on or after the anchor; the anchor *)
(* 2024-01-31 gives 2024-02-29 for February 2024 and nothing for February   *)
(* 2023, which lies before it; the anchor 2023-01-31 gives 2023-02-28 for   *)
(* February 2023.                                                           *)
MonthlyClamped ==
  (eval.done /\ eval.item.frequency = MONTHLY) =>
    LET anchor == eval.item.startDate
        last == DaysInMonth(eval.year, eval.month)
        candidate == MkDate(eval.year, eval.month,
                            IF DayOf(anchor) < last THEN DayOf(anchor) ELSE last)
    IN /\ eval.dates = IF candidate >= anchor THEN <<candidate>> ELSE <<>>
       /\ (anchor = 20240131 /\ eval.year = 2024 /\ eval.month = 1) =>
            eval.dates = <<20240229>>
       /\ (anchor = 20240131 /\ eval.year = 2023 /\ eval.month = 1) =>
            eval.dates = <<>>
       /\ (anchor = 20230131 /\ eval.year = 2023 /\ eval.month = 1) =>
            eval.dates = <<20230228>>

(* C12 witness: the Monthly item anchored 2024-01-31 was evaluated for      *)
(* February 2024 and gave 2024-02-29.                                       *)
MonthlyLeapExample ==
  /\ eval.done
  /\ eval.item.frequency = MONTHLY
  /\ eval.item.startDate = 20240131
  /\ eval.year = 2024
  /\ eval.month = 1
  /\ eval.dates = <<20240229>>

(* C13: a Quarterly item has an occurrence in the target month iff the      *)
(* difference of the absolute month indexes year*12+month of target and     *)
(* anchor is >= 0 and divisible by 3, and then exactly one, on day          *)
(* min(anchor day, days of the target month); the anchor 2024-01-15 gives,  *)
(* in 2024, the 15th of January, April, July and October only.              *)
QuarterlyEveryThirdMonth ==
  (eval.done /\ eval.item.frequency = QUARTERLY) =>
    LET anchor == eval.item.startDate
        anchorIndex == (anchor \div 10000) * 12 + ((anchor \div 100) % 100) - 1
        diff == (eval.year * 12 + eval.month) - anchorIndex
        last == DaysInMonth(eval.year, eval.month)
        candidate == MkDate(eval.year, eval.month,
                            IF DayOf(anchor) < last THEN DayOf(anchor) ELSE last)
    IN /\ eval.dates = IF diff >= 0 /\ diff % 3 = 0 THEN <<candidate>> ELSE <<>>
       /\ (anchor = 20240115 /\ eval.year = 2024) =>
            eval.dates = IF eval.month \in {0, 3, 6, 9}
                         THEN <<20240015 + 100 * (eval.month + 1)>> ELSE <<>>

(* C13 witness: the Quarterly item anchored 2024-01-15 was evaluated for    *)
(* October 2024 and gave 2024-10-15.                                        *)
QuarterlyOctoberExample ==
  /\ eval.done
  /\ eval.item.frequency = QUARTERLY
  /\ eval.item.startDate = 20240115
  /\ eval.year = 2024
  /\ eval.month = 9
  /\ eval.dates = <<20241015>>

(* C14: a Yearly item has an occurrence in the target month iff the month   *)
(* is the anchor's month and the year is >= the anchor's year, and then     *)
(* exactly one, on day min(anchor day, days of the target month); the       *)
(* anchor 2024-02-29 gives 2025-02-28 for February 2025.                    *)
YearlySameMonth ==
  (eval.done /\ eval.item.frequency = YEARLY) =>
    LET anchor == eval.item.startDate
        last == DaysInMonth(eval.year, eval.month)
        candidate == MkDate(eval.year, eval.month,
                            IF DayOf(anchor) < last THEN DayOf(anchor) ELSE last)
    IN /\ eval.dates = IF (anchor \div 100) % 100 = eval.month + 1
                          /\ eval.year >= anchor \div 10000
                       THEN <<candidate>> ELSE <<>>
       /\ (anchor = 20240229 /\ eval.year = 2025 /\ eval.month = 1) =>
            eval.dates = <<20250228>>

(* C14 witness: the Yearly item anchored 2024-02-29 was evaluated for       *)
(* February 2025 and gave 2025-02-28.                                       *)
YearlyLeapAnchorExample ==
  /\ eval.done
  /\ eval.item.frequency = YEARLY
  /\ eval.item.startDate = 20240229
  /\ eval.year = 2025
  /\ eval.month = 1
  /\ eval.dates = <<20250228>>

(* C15: a One Time item gives exactly its anchor when the anchor's year and *)
(* month are the target's, and nothing otherwise.                           *)
OneTimeOnlyInAnchorMonth ==
  (eval.done /\ eval.item.frequency = ONE_TIME) =>
    eval.dates = IF eval.item.startDate \div 100 = eval.year * 100 + eval.month + 1
                 THEN <<eval.item.startDate>> ELSE <<>>

(* C15 witness: a One Time item was evaluated for the month of its anchor   *)
(* and gave the anchor.                                                     *)
OneTimeGaveAnchor ==
  /\ eval.done
  /\ eval.item.frequency = ONE_TIME
  /\ eval.item.startDate \div 100 = eval.year * 100 + eval.month + 1
  /\ eval.dates = <<eval.item.startDate>>

(* C16: whatever the frequency, every date returned is a date of the target *)
(* month on or after the anchor, the dates ascend strictly, and nothing is  *)
(* returned when the anchor is after the last day of the target month.      *)
DatesWithinMonthFromAnchor ==
  eval.done =>
    LET anchor == eval.item.startDate
        last == DaysInMonth(eval.year, eval.month)
    IN /\ \A i \in 1..Len(eval.dates) :
            /\ eval.dates[i] \div 100 = eval.year * 100 + eval.month + 1
            /\ eval.dates[i] % 100 \in 1..last
            /\ eval.dates[i] >= anchor
       /\ \A i \in 1..(Len(eval.dates) - 1) : eval.dates[i] < eval.dates[i + 1]
       /\ anchor > eval.year * 10000 + (eval.month + 1) * 100 + last => eval.dates = <<>>

(* C16 witness: an item anchored inside the target month, after its first   *)
(* day, gave three or more dates, the first of them the anchor.             *)
SeveralDatesFromAnchor ==
  /\ eval.done
  /\ Len(eval.dates) >= 3
  /\ eval.dates[1] = eval.item.startDate
  /\ eval.item.startDate % 100 > 1

(* C17: under sequential use, when no other handler has written to the      *)
(* stores since the call began, the list generate returned holds exactly    *)
(* the occurrences stored for the profile in the target month (those found  *)
(* and those created), in ascending order of date.                          *)
GenerateReturnsTheMonth ==
  \A i \in 1..Len(tasks) :
    (tasks[i].pc \in {"items", "finish"} /\ tasks[i].clean) =>
      /\ Ids(tasks[i].result) =
           {t.id : t \in {u \in transactions :
                            /\ u.profileId = ActiveProfile
                            /\ u.date \div 100 = tasks[i].year * 100 + tasks[i].month + 1}}
      /\ \A k \in 1..(Len(tasks[i].result) - 1) :
           tasks[i].result[k].date <= tasks[i].result[k + 1].date

(* C18: in every time zone, for every month a generate call in flight was   *)
(* made for, getTransactionsForMonth on the store returns exactly the       *)
(* active profile's stored occurrences dated within that calendar month.    *)
MonthQueryExact ==
  \A i \in 1..Len(tasks) :
    LET found == getTransactionsForMonth(transactions, ActiveProfile,
                                         tasks[i].year, tasks[i].month, tz)
    IN {found[k] : k \in 1..Len(found)} =
         {t \in transactions :
            /\ t.profileId = ActiveProfile
            /\ t.date \div 100 = tasks[i].year * 100 + tasks[i].month + 1}

(* C19: when a generate call returns for a period for which an earlier call *)
(* was rejected after some of its inserts, every date the evaluator gives   *)
(* for every budget item of the profile in that period has exactly one      *)
(* stored occurrence.                                                       *)
RetryCompletesThePeriod ==
  \A i \in 1..Len(tasks) :
    (tasks[i].pc \in {"items", "finish"} /\ <<tasks[i].year, tasks[i].month>> \in failed) =>
      \A b \in getProfileBudgetItems(budgetItems, ActiveProfile) :
        LET dates == getOccurrencesInMonth(b, tasks[i].year, tasks[i].month)
        IN \A k \in 1..Len(dates) :
             Cardinality({t \in transactions :
                            t.budgetItemId = b.id /\ t.date = dates[k]}) = 1

(* C20: no two generateTransactionsForMonth calls of the home view for the  *)
(* same profile, year and month are in flight at the same time, whatever    *)
(* the Prev, Next and Today clicks.                                         *)
NoTwoGeneratesForSamePeriod ==
  \A i, j \in 1..Len(tasks) :
    (/\ i # j
     /\ tasks[i].pc \in {"genItems", "genExisting", "genInsert"}
     /\ tasks[j].pc \in {"genItems", "genExisting", "genInsert"}) =>
      <<tasks[i].year, tasks[i].month>> # <<tasks[j].year, tasks[j].month>>

(* C21: every Prev, Next or Today click leaves currentMonth in 0..11; Prev  *)
(* moves the (year, month) shown back by exactly one calendar month         *)
(* (January to December of the year before), Next forward by exactly one    *)
(* (December to January of the year after), and from the month reached      *)
(* Next then Prev, and Prev then Next, give that month again.               *)
NavigationStepsOneMonth ==
  [][op'.name \in {"prev", "next", "today"} =>
       /\ currentMonth' \in 0..11
       /\ op'.name = "prev" =>
            /\ 12 * currentYear' + currentMonth' = 12 * currentYear + currentMonth - 1
            /\ currentMonth = 0 => <<currentYear', currentMonth'>> = <<currentYear - 1, 11>>
       /\ op'.name = "next" =>
            /\ 12 * currentYear' + currentMonth' = 12 * currentYear + currentMonth + 1
            /\ currentMonth = 11 => <<currentYear', currentMonth'>> = <<currentYear + 1, 0>>
       /\ PrevMonth(NextMonth(currentYear', currentMonth')[1],
                    NextMonth(currentYear', currentMonth')[2]) = <<currentYear', currentMonth'>>
       /\ NextMonth(PrevMonth(currentYear', currentMonth')[1],
                    PrevMonth(currentYear', currentMonth')[2]) = <<currentYear', currentMonth'>>
    ]_vars

(* Next was clicked in December and the view shows January of the next year. *)
NextFromDecember ==
  /\ op.name = "next"
  /\ currentMonth = 0
  /\ currentYear = TodayYear

(* C22: when the delete flow of a budget item chosen with "Yes, delete      *)
(* transactions" completes (no import having written meanwhile), the store  *)
(* holds neither the item nor any occurrence whose budgetItemId is that     *)
(* item, also when a generate of the home view was in flight.               *)
CascadeLeavesNothing ==
  (op.name = "deleteItem" /\ del.cascadeDelete /\ imported = {}) =>
    /\ ~ \E b \in budgetItems : b.id = op.id
    /\ ~ \E t \in transactions : t.budgetItemId = op.id

InterleavedGeneratesDuplicate ==
  [][/\ \A i, j \in 1..Len(tasks) :
          (/\ i # j
           /\ tasks[i].year = tasks[j].year /\ tasks[i].month = tasks[j].month
           /\ tasks[i].pc = "genInsert" /\ tasks[j].pc = "genInsert"
           /\ tasks[i].added = 0 /\ tasks[j].added = 0
           /\ tasks[i].clean /\ tasks[j].clean) =>
            /\ {<<tasks[i].todo[k].budgetItemId, tasks[i].todo[k].date>> :
                  k \in 1..Len(tasks[i].todo)}
                 = {<<tasks[j].todo[k].budgetItemId, tasks[j].todo[k].date>> :
                      k \in 1..Len(tasks[j].todo)}
            /\ Ids(tasks[i].todo) \cap Ids(tasks[j].todo) = {}
     /\ op'.name = "genInsert" =>
          \E r \in transactions' :
            /\ r.id = op'.id
            /\ ~HasKey(transactions, r.id)
            /\ transactions' = transactions \cup {r}
    ]_vars

(* With the clock on UTC and nothing imported, two generate calls for the   *)
(* same month have interleaved and the store holds two occurrences of one   *)
(* rule for one date.                                                       *)
DuplicateAfterInterleaving ==
  /\ tz = 0
  /\ imported = {}
  /\ op.name = "genInsert"
  /\ \E t \in transactions :
       /\ t.id = op.id
       /\ \E u \in transactions :
            u.id # t.id /\ u.budgetItemId = t.budgetItemId /\ u.date = t.date

(* C26: a click on a checklist row leaves the set of stored occurrence ids  *)
(* as it was, leaves every other stored record as it was, and changes at    *)
(* most the status field of the stored record of that row.                  *)
ToggleChangesOnlyStatus ==
  [][op'.name = "toggle" =>
       /\ {t.id : t \in transactions'} = {t.id : t \in transactions}
       /\ \A t \in transactions : t.id # view[op'.id].id => t \in transactions'
       /\ \A t \in transactions, u \in transactions' :
            (t.id = view[op'.id].id /\ u.id = t.id) => u = [t EXCEPT !.status = u.status]
    ]_vars

(* C27: when a generate call that read the budget items after a rule was    *)
(* deleted without cascade returns, every stored occurrence of that rule    *)
(* dated in the requested month is in the list it returns (nothing having   *)
(* been imported or cleared).                                               *)
OrphansStillReturned ==
  \A i \in 1..Len(tasks) : \A o \in transactions :
    (/\ tasks[i].pc = "items"
     /\ budgetItems # {}
     /\ imported = {}
     /\ ~del.cascadeDelete
     /\ o.profileId = ActiveProfile
     /\ o.date \div 100 = tasks[i].year * 100 + tasks[i].month + 1
     /\ ~ \E b \in budgetItems : b.id = o.budgetItemId
     /\ ~ \E b \in tasks[i].items : b.id = o.budgetItemId) =>
      o.id \in Ids(tasks[i].result)

(* C28: the renderHome call that completes when no other is in flight, and  *)
(* so leaves its checklist and summary on screen, was made for the month    *)
(* the label shows, the last one selected.                                  *)
LastRenderShowsSelectedMonth ==
  [][(op'.name = "renderFinish"
      /\ Cardinality({i \in 1..Len(tasks) : tasks[i].kind = "render"}) = 1) =>
       \A i \in 1..Len(tasks) :
         tasks[i].kind = "render" =>
           /\ tasks[i].year = currentYear
           /\ tasks[i].month = currentMonth
           /\ view' = tasks[i].result
    ]_vars

(* C29: every occurrence persisted by a renderHome call, by its own         *)
(* generate or by that of its month comparison, is of the active profile    *)
(* and dated in the month the call renders or in the month before it, and   *)
(* the insert leaves every stored occurrence as it was.                     *)
RenderPersistsOnlyItsMonths ==
  [][op'.name = "genInsert" =>
       \A i \in 1..Len(tasks) :
         (tasks[i].pc = "genInsert" /\ Head(tasks[i].todo).id = op'.id) =>
           /\ Head(tasks[i].todo).profileId = ActiveProfile
           /\ \/ Head(tasks[i].todo).date \div 100
                   = tasks[i].ofYear * 100 + tasks[i].ofMonth + 1
              \/ Head(tasks[i].todo).date \div 100
                   = PrevMonth(tasks[i].ofYear, tasks[i].ofMonth)[1] * 100
                     + PrevMonth(tasks[i].ofYear, tasks[i].ofMonth)[2] + 1
           /\ transactions \subseteq transactions'
    ]_vars

(* C30: the month renderMonthComparison generates and totals is the month   *)
(* immediately before the month whose total it was handed.                  *)
ComparisonUsesPredecessor ==
  \A i \in 1..Len(tasks) :
    tasks[i].kind = "compare" =>
      <<tasks[i].year, tasks[i].month>> = PrevMonth(tasks[i].ofYear, tasks[i].ofMonth)

====
